---- MODULE Spec2Model ----
(***************************************************************************)
(* Reaction-boosting engine of RootGPT: ReactionBoostService.boost_post,   *)
(* its retry sub-protocol and error handling, the BoostedPost and          *)
(* ActivityLog stores, and the arrival path                                *)
(* BotHandler._handle_channel_post -> PostMonitorService                   *)
(* .process_channel_post -> boost_post.                                    *)
(*                                                                         *)
(* Every boost_post call is an asyncio task; a task gives up control only  *)
(* at an await, so each action below is the code between two awaits with   *)
(* the effect of the awaited operation.                                    *)
(***************************************************************************)
EXTENDS Integers, Sequences, FiniteSets, Bags, TLC

(***************************************************************************)
(* Bounds of the model.                                                    *)
(***************************************************************************)
MaxTasks == 2
MaxPost == 1
MaxWait == 2
MaxCalls == 2
MaxApiCalls == 4
MaxMonitorPost == 2
MaxLoops == 2
MaxCycles == 2
MaxSchedulerCalls == 4

Posts == 1..MaxPost
\* One channel: boost_post reads and writes no state of another channel.
Channels == {1}
Waits == 1..MaxWait
\* The channels and post ids of the runs of PostMonitorService on its own.
MonitorChannels == {1, 2}
MonitorPosts == 1..MaxMonitorPost

(***************************************************************************)
(* Program constants.                                                      *)
(***************************************************************************)
max_retries == 3
DefaultReactionCount == 1
DefaultDelayMin == 2
DefaultDelayMax == 8
MinReactionCount == 1
MaxReactionCount == 100

Modes == {"comment", "reaction", "both"}

(***************************************************************************)
(* Channel.reaction_settings is an untyped JSON payload: a dict, modelled  *)
(* as a function from the keys that are present.  None and {} are both     *)
(* falsy and are the function with the empty domain.                       *)
(***************************************************************************)
NoSettings == [k \in {} |-> 0]
FullSettings ==
    [emojis |-> <<"a", "b">>, reaction_count |-> 2, delay_min |-> 1,
     delay_max |-> 2, auto_boost |-> TRUE]
SettingsPool ==
    { NoSettings,
      FullSettings,
      [emojis |-> <<"a", "b">>],
      [FullSettings EXCEPT !.auto_boost = FALSE],
      [FullSettings EXCEPT !.reaction_count = 3],
      [FullSettings EXCEPT !.reaction_count = 3, !.auto_boost = FALSE] }

(***************************************************************************)
(* ReactionSettings.  Numbers are integers here; a field that holds a      *)
(* value of another Python type (a str, for reaction_count also a float)   *)
(* is named in not_int, and its number is then without meaning.            *)
(***************************************************************************)
from_dict(data) ==
    [emojis         |-> IF "emojis" \in DOMAIN data THEN data.emojis ELSE <<>>,
     reaction_count |-> IF "reaction_count" \in DOMAIN data
                        THEN data.reaction_count ELSE DefaultReactionCount,
     delay_min      |-> IF "delay_min" \in DOMAIN data
                        THEN data.delay_min ELSE DefaultDelayMin,
     delay_max      |-> IF "delay_max" \in DOMAIN data
                        THEN data.delay_max ELSE DefaultDelayMax,
     auto_boost     |-> IF "auto_boost" \in DOMAIN data
                        THEN data.auto_boost ELSE TRUE,
     not_int        |-> IF "not_int" \in DOMAIN data
                        THEN data.not_int ELSE {}]

\* Mutant: the reaction count is not compared with the size of the pool.
validate_no_pool_check(s) ==
    IF Len(s.emojis) = 0
    THEN [ok |-> FALSE, msg |-> "At least one emoji must be selected"]
    ELSE IF "reaction_count" \in s.not_int
    THEN [ok |-> FALSE, msg |-> "Reaction count must be an integer"]
    ELSE IF ~(MinReactionCount <= s.reaction_count
              /\ s.reaction_count <= MaxReactionCount)
    THEN [ok |-> FALSE, msg |-> "Reaction count must be between 1 and 100"]
    ELSE IF "delay_min" \in s.not_int \/ "delay_max" \in s.not_int
    THEN [ok |-> FALSE, msg |-> "Delay values must be numbers"]
    ELSE IF s.delay_min < 0
    THEN [ok |-> FALSE, msg |-> "Minimum delay must be non-negative"]
    ELSE IF s.delay_max < s.delay_min
    THEN [ok |-> FALSE,
          msg |-> "Maximum delay must be greater than or equal to minimum delay"]
    ELSE [ok |-> TRUE, msg |-> "None"]

\* validate() returns (is_valid, error_message); the first failing check wins.
validate(s) ==
    IF Len(s.emojis) = 0
    THEN [ok |-> FALSE, msg |-> "At least one emoji must be selected"]
    ELSE IF "reaction_count" \in s.not_int
    THEN [ok |-> FALSE, msg |-> "Reaction count must be an integer"]
    ELSE IF ~(MinReactionCount <= s.reaction_count
              /\ s.reaction_count <= MaxReactionCount)
    THEN [ok |-> FALSE, msg |-> "Reaction count must be between 1 and 100"]
    ELSE IF "delay_min" \in s.not_int \/ "delay_max" \in s.not_int
    THEN [ok |-> FALSE, msg |-> "Delay values must be numbers"]
    ELSE IF s.delay_min < 0
    THEN [ok |-> FALSE, msg |-> "Minimum delay must be non-negative"]
    ELSE IF s.delay_max < s.delay_min
    THEN [ok |-> FALSE,
          msg |-> "Maximum delay must be greater than or equal to minimum delay"]
    ELSE IF s.reaction_count > Len(s.emojis)
    THEN [ok |-> FALSE, msg |-> "Reaction count cannot exceed number of emojis"]
    ELSE [ok |-> TRUE, msg |-> "None"]

(***************************************************************************)
(* _select_random_emojis: random.shuffle of a copy, then emojis[:count].   *)
(* The result is any prefix of any permutation of the pool.                *)
(***************************************************************************)
Shuffles(seq) ==
    { [i \in 1..Len(seq) |-> seq[f[i]]] :
        f \in { g \in [1..Len(seq) -> 1..Len(seq)] :
                  \A i, j \in 1..Len(seq) : i # j => g[i] # g[j] } }

\* Python's seq[:n]: the first n elements, or all but the last -n when n < 0.
SliceTo(seq, n) ==
    IF n >= 0
    THEN SubSeq(seq, 1, IF n < Len(seq) THEN n ELSE Len(seq))
    ELSE SubSeq(seq, 1, IF Len(seq) + n > 0 THEN Len(seq) + n ELSE 0)

\* Mutant: the emojis are drawn with replacement.
select_random_emojis_with_replacement(s) ==
    LET n == IF s.reaction_count < Len(s.emojis)
             THEN s.reaction_count ELSE Len(s.emojis)
    IN  [1..n -> { s.emojis[i] : i \in 1..Len(s.emojis) }]

\* Mutant: the whole shuffled pool is returned, whatever the count.
select_random_emojis_whole_pool(s) == Shuffles(s.emojis)

select_random_emojis(s) ==
    { SliceTo(perm, s.reaction_count) : perm \in Shuffles(s.emojis) }

(***************************************************************************)
(* State.                                                                  *)
(*   chanDb       the active rows of the channels table (every query of    *)
(*                these paths filters on is_active): persisted mode and    *)
(*                reaction_settings                                        *)
(*   boosted      the boosted_posts table (a bag of rows)                  *)
(*   activity     the activity_logs table (a bag of rows)                  *)
(*   applied      reactions present on the host platform                   *)
(*   last_checked PostMonitorService.last_checked                          *)
(*   frames       the boost_post calls in progress: a bag of call frames   *)
(*                (asyncio tasks have no identity the program reads)       *)
(*   ncalls       number of post events and boost_post calls so far        *)
(*   napi         number of set_message_reaction calls so far              *)
(*   returned     the (channel, post) pairs an earlier boost_post call has  *)
(*                returned from (history, read by the properties only)     *)
(*   reaction_service  whether PostMonitorService was given a collaborator *)
(*   sweep        the monitor_channels call in progress, if any            *)
(*   history      the boost_post invocations made by process_channel_post, *)
(*                the exceptions it swallowed and the calls that were      *)
(*                cancelled (read by the properties only)                  *)
(*   probe        a ReactionSettings object a caller holds, with the       *)
(*                results of the calls made on it                          *)
(*   scheduler    the RepostScheduler object: its fields, the loop tasks   *)
(*                it has created and the stop() calls in progress          *)
(***************************************************************************)
VARIABLES chanDb, boosted, activity, applied, last_checked, frames, ncalls,
          napi, returned, reaction_service, sweep, history, probe, scheduler

vars == <<chanDb, boosted, activity, applied, last_checked, frames, ncalls,
          napi, returned, reaction_service, sweep, history, probe, scheduler>>

\* What no operation of RepostScheduler touches.
coreVars == <<chanDb, boosted, activity, applied, last_checked, frames,
              ncalls, napi, returned, reaction_service, sweep, history, probe>>

\* What no step of boost_post touches.
monitorVars == <<reaction_service, sweep, history>>

\* Outcomes of bot.set_message_reaction: success, TelegramRetryAfter,
\* TelegramForbiddenError, another TelegramAPIError, or an exception that is
\* not a TelegramAPIError (aiogram's ClientDecodeError, for one).
Outcomes == {"ok", "retry_after", "forbidden", "api_error", "exception"}

\* The locals of a boost_post call before its first statement.
NewFrame ==
    [pc |-> "check", sess |-> "none", via |-> "direct",
     channel |-> [id |-> 0, mode |-> "comment", reaction_settings |-> NoSettings],
     post |-> 0, emojis |-> <<>>, idx |-> 0, reactions_added |-> 0,
     attempt |-> 0, outs |-> <<>>, sleeps |-> <<>>,
     exc |-> [kind |-> "none", retry_after |-> 0],
     \* History of the call, read by the properties only: the rows of the
     \* pair at entry, whether an earlier call for the pair has returned,
     \* the mode at entry, the external calls made and those answered
     \* forbidden, the rows written, the emojis that succeeded.
     entryRows |-> {}, second |-> FALSE, mode0 |-> "comment", calls |-> 0,
     forbidden |-> 0, writes |-> 0, succ |-> <<>>]

(***************************************************************************)
(* Stores.                                                                 *)
(***************************************************************************)
RowsOf(table, c, p) ==
    { r \in BagToSet(table) : r.channel_id = c /\ r.post_id = p }

\* Number of rows of a table that satisfy a predicate, given as a set of rows.
RECURSIVE CountRows(_, _)
CountRows(table, rows) ==
    IF rows = {} THEN 0
    ELSE LET r == CHOOSE x \in rows : TRUE
         IN  CopiesIn(r, table) + CountRows(table, rows \ {r})

\* Mutant: the dedup query finds nothing.
is_already_boosted_never(table, c, p) == FALSE

is_already_boosted(table, c, p) == RowsOf(table, c, p) # {}

\* Mutant: the index is not unique.
InsertAllowed_no_unique_index(table, row) == TRUE

\* idx_channel_post is a unique index on (channel_id, post_id): the commit
\* of a second row for the same pair raises IntegrityError.
InsertAllowed(table, row) == RowsOf(table, row.channel_id, row.post_id) = {}

BoostedPostRow(c, p, count, emojis) ==
    [channel_id |-> c, post_id |-> p, reaction_count |-> count,
     emojis_used |-> emojis]

ActivityLogRow(c, p, type, details) ==
    [channel_id |-> c, post_id |-> p, activity_type |-> type,
     details |-> details]

\* Python's {**a, **b}: the keys of both, b winning where both have a key.
DictMerge(a, b) ==
    [k \in DOMAIN a \cup DOMAIN b |-> IF k \in DOMAIN b THEN b[k] ELSE a[k]]

log_reaction_added(c, p, emoji) ==
    ActivityLogRow(c, p, "reaction_added", [emoji |-> emoji])

log_boost_completed(c, p, count) ==
    ActivityLogRow(c, p, "boost_completed", [reaction_count |-> count])

log_error(c, p, error_type, details) ==
    ActivityLogRow(c, p, "error",
                   DictMerge([error_type |-> error_type], details))

\* Mutant: a row equal to one already stored is not added again.
Append1_dedup(table, row) ==
    IF BagIn(row, table) THEN table ELSE table (+) SetToBag({row})

\* session.add(row) and commit: one more row, whatever is stored already.
Append1(table, row) == table (+) SetToBag({row})

(***************************************************************************)
(* Initial state: empty stores, the channels configured by the admin UI    *)
(* with some mode and some settings payload (the same for every channel:   *)
(* what one channel does never depends on another's configuration), no     *)
(* call in progress.                                                       *)
(***************************************************************************)
ChannelConfigs ==
    { [mode |-> m, reaction_settings |-> d] : m \in Modes, d \in SettingsPool }

\* Python's d.get(k, default) and d[k] = v on a dict.
dict_get(d, k, default) == IF k \in DOMAIN d THEN d[k] ELSE default

\* Mutant: the assignment forgets the other keys.
dict_set_only_key(d, k, v) == [x \in {k} |-> v]

dict_set(d, k, v) == [x \in DOMAIN d \cup {k} |-> IF x = k THEN v ELSE d[x]]

EmptyDict == [k \in {} |-> 0]

\* monitor_channels is not running.
IdleSweep ==
    [pc |-> "idle", listed |-> <<>>, todo |-> <<>>, visited |-> <<>>,
     failed |-> {}]

NoHistory == [dispatched |-> EmptyBag, swallowed |-> {}, cancelled |-> {}]

\* No ReactionSettings object is held.
NoProbe == [held |-> FALSE]

\* RepostScheduler.__init__: not running, no task.  tasks are the loop tasks
\* created so far (self.task is an index into them, 0 for None), stops the
\* stop() calls that have not left yet, calls the number of calls made.
NewScheduler ==
    [running |-> FALSE, task |-> 0, tasks |-> <<>>, stops |-> {}, calls |-> 0]

\* The stores and services as constructed, before any channel configuration.
Constructed ==
    /\ scheduler = NewScheduler
    /\ boosted = EmptyBag
    /\ activity = EmptyBag
    /\ applied = {}
    /\ last_checked = EmptyDict
    /\ frames = EmptyBag
    /\ ncalls = 0
    /\ napi = 0
    /\ returned = {}
    /\ sweep = IdleSweep
    /\ history = NoHistory

Init ==
    /\ \E cfg \in ChannelConfigs : chanDb = [c \in Channels |-> cfg]
    /\ reaction_service = TRUE
    /\ probe = NoProbe
    /\ Constructed

(***************************************************************************)
(* Pieces of ReactionBoostService the actions are built from.              *)
(***************************************************************************)
\* Mutant: the retry loop also catches the other API errors.
CaughtByRetry_any_api_error(o) == o \in {"retry_after", "api_error"}

\* _add_reaction_with_retry: `except TelegramRetryAfter`
CaughtByRetry(o) == o = "retry_after"

\* Mutant: the last attempt sleeps as well instead of raising.
RetryAgain_off_by_one(attempt) == attempt < max_retries

\* _add_reaction_with_retry: `if attempt < self.max_retries - 1`
RetryAgain(attempt) == attempt < max_retries - 1

\* _add_reaction_with_retry: `await asyncio.sleep(e.retry_after)`
RetrySleepDuration(exc) == exc.retry_after

\* boost_post: `except TelegramAPIError`
CaughtByLoop(o) == o \in {"retry_after", "forbidden", "api_error"}

\* _handle_api_error: the isinstance chain and the row each branch logs
handle_api_error(channel, post, emoji, exc) ==
    IF exc.kind = "forbidden"
    THEN log_error(channel.id, post, "permission_error",
                   [message |-> "Bot is not admin in channel"])
    ELSE IF exc.kind = "retry_after"
    THEN log_error(channel.id, post, "rate_limit",
                   [retry_after |-> exc.retry_after])
    ELSE log_error(channel.id, post, "unknown_error",
                   [error |-> exc.kind, emoji |-> emoji])

\* Mutant: every handled error disables the reaction mode.
DisablesReactionMode_any_error(exc) == TRUE

\* _handle_api_error: only the forbidden branch calls _disable_reaction_mode
DisablesReactionMode(exc) == exc.kind = "forbidden"

\* Mutant: the mode is left as it was.
disable_reaction_mode_keeps(mode) == mode

\* _disable_reaction_mode: the new value of channel.mode
disable_reaction_mode(mode) ==
    IF mode = "both" THEN "comment"
    ELSE IF mode = "reaction" THEN "comment"
    ELSE mode

\* _disable_reaction_mode commits self.db, the session of the service.  The
\* assignment to channel.mode reaches the channels table only when the
\* channel object belongs to that session; an object loaded by another
\* session stays dirty there and is discarded when that session is closed.
CommitPersistsChannel(sess) == sess = "service"

\* boost_post: `if not channel.reaction_settings` (None and {} alike)
HasNoSettings(data) == DOMAIN data = {}

\* Mutant: the auto_boost flag is not looked at.
AutoBoostOff_never(settings) == FALSE

\* boost_post: `if not settings.auto_boost`
AutoBoostOff(settings) == ~settings.auto_boost

\* Mutant: the result of validate() is not looked at.
SettingsRejected_never(v) == FALSE

\* boost_post: `if not is_valid`
SettingsRejected(v) == ~v.ok

\* boost_post: `if reactions_added < len(emojis)`
DelayAfter(f) == f.reactions_added < Len(f.emojis)

\* Mutant: the post is marked whatever the number of reactions added.
ShouldMark_always(f) == TRUE

\* boost_post: `if reactions_added > 0`
ShouldMark(f) == f.reactions_added > 0

\* boost_post: the emojis argument of _mark_as_boosted
mark_as_boosted(f) ==
    BoostedPostRow(f.channel.id, f.post, f.reactions_added, f.emojis)

\* The for loop over the selected emojis moves on, or ends in the completion.
AfterEmoji(f) ==
    IF f.idx < Len(f.emojis)
    THEN [f EXCEPT !.pc = "react", !.idx = @ + 1, !.attempt = 0,
                   !.outs = <<>>, !.sleeps = <<>>]
    ELSE IF ShouldMark(f) THEN [f EXCEPT !.pc = "mark"]
    ELSE [f EXCEPT !.pc = "done"]

\* The call frame of a boost_post that has just been entered.
EnterBoost(channel, sess, p) ==
    [NewFrame EXCEPT !.sess = sess, !.channel = channel, !.post = p,
                     !.entryRows = RowsOf(boosted, channel.id, p),
                     !.mode0 = channel.mode,
                     !.second = (<<channel.id, p>> \in returned)]

LoadChannel(c) ==
    [id |-> c, mode |-> chanDb[c].mode,
     reaction_settings |-> chanDb[c].reaction_settings]

\* A call in progress moves from frame f to frame g.
Step(f, g) == frames' = (frames (-) SetToBag({f})) (+) SetToBag({g})

(***************************************************************************)
(* PostMonitorService.process_channel_post                                 *)
(***************************************************************************)
\* Mutant: a post id equal to the high-water mark passes as new.
IsNewPost_or_equal(message_id, last_message_id) ==
    message_id >= last_message_id

\* `if post.message_id <= last_message_id: return`
IsNewPost(message_id, last_message_id) == message_id > last_message_id

\* Mutant: the collaborator is not looked at.
RoutesToBoost_mode_only(mode, collaborator) == mode \in {"reaction", "both"}

\* `if (channel.mode == 'reaction' or channel.mode == 'both') and
\*  self.reaction_service`
RoutesToBoost(mode, collaborator) ==
    mode \in {"reaction", "both"} /\ collaborator

\* Mutant: only the errors of the host API are caught.
CaughtByProcess_api_only(kind) ==
    kind \in {"retry_after", "forbidden", "api_error"}

\* `except Exception` around the boost_post call
CaughtByProcess(kind) == TRUE

\* A call that ends before boost_post is entered.
EarlyReturn(pc, channel, sess, p) ==
    [NewFrame EXCEPT !.pc = pc, !.via = "monitor", !.sess = sess,
                     !.channel = channel, !.post = p, !.mode0 = channel.mode]

\* process_channel_post up to its await: the check of the high-water mark,
\* its update, and the dispatch to boost_post.
process_channel_post(channel, sess, p) ==
    LET last_message_id == dict_get(last_checked, channel.id, 0)
    IN  IF ~IsNewPost(p, last_message_id)
        THEN /\ frames' = frames (+)
                    SetToBag({EarlyReturn("dropped", channel, sess, p)})
             /\ UNCHANGED <<last_checked, history>>
        ELSE /\ last_checked' = dict_set(last_checked, channel.id, p)
             /\ IF RoutesToBoost(channel.mode, reaction_service)
                THEN /\ frames' = frames (+) SetToBag({
                            [EnterBoost(channel, sess, p)
                                EXCEPT !.via = "monitor"]})
                     /\ history' =
                            [history EXCEPT !.dispatched =
                                @ (+) SetToBag({<<channel.id, p>>})]
                ELSE /\ frames' = frames (+)
                            SetToBag({EarlyReturn("skipped", channel, sess, p)})
                     /\ UNCHANGED history

(***************************************************************************)
(* Entry points.                                                           *)
(***************************************************************************)
\* boost_post(channel, post) called with a channel object of the service's
\* own session, as monitor_channels and the test-suite do.
BoostPostDirect(c, p) ==
    /\ ncalls < MaxCalls
    /\ BagCardinality(frames) < MaxTasks
    /\ ncalls' = ncalls + 1
    /\ frames' = frames (+) SetToBag({EnterBoost(LoadChannel(c), "service", p)})
    /\ UNCHANGED <<chanDb, boosted, activity, applied, last_checked, napi,
                   returned>>
    /\ UNCHANGED <<monitorVars, probe, scheduler>>

\* BotHandler._handle_channel_post: load the channel in a session of the
\* event's own and hand a reaction/both channel to process_channel_post.
HandleChannelPost(c, p) ==
    /\ ncalls < MaxCalls
    /\ BagCardinality(frames) < MaxTasks
    /\ ncalls' = ncalls + 1
    /\ LET channel == LoadChannel(c)
       IN  IF channel.mode \in {"reaction", "both"}
           THEN process_channel_post(channel, "event", p)
           ELSE /\ frames' = frames (+) SetToBag({
                       [EarlyReturn("unrouted", channel, "event", p)
                           EXCEPT !.via = "direct"]})
                /\ UNCHANGED <<last_checked, history>>
    /\ UNCHANGED <<chanDb, boosted, activity, applied, napi, returned,
                   reaction_service, sweep>>
    /\ UNCHANGED <<probe, scheduler>>

\* process_channel_post(channel, post) called on its own, as the test-suite
\* does, with a channel object of the service's session.
ProcessChannelPostDirect(c, p) ==
    /\ ncalls < MaxCalls
    /\ BagCardinality(frames) < MaxTasks
    /\ ncalls' = ncalls + 1
    /\ process_channel_post(LoadChannel(c), "service", p)
    /\ UNCHANGED <<chanDb, boosted, activity, applied, napi, returned,
                   reaction_service, sweep>>
    /\ UNCHANGED <<probe, scheduler>>

(***************************************************************************)
(* boost_post, one action per await.                                       *)
(***************************************************************************)
\* The dedup query, the three gates and the emoji selection.
Check(f) ==
    LET settings == from_dict(f.channel.reaction_settings)
        v        == validate(settings)
    IN  /\ BagIn(f, frames)
        /\ f.pc = "check"
        /\ IF is_already_boosted(boosted, f.channel.id, f.post)
           THEN /\ Step(f, [f EXCEPT !.pc = "done"])
                /\ UNCHANGED activity
           ELSE IF HasNoSettings(f.channel.reaction_settings)
           THEN /\ Step(f, [f EXCEPT !.pc = "done"])
                /\ UNCHANGED activity
           ELSE IF AutoBoostOff(settings)
           THEN /\ Step(f, [f EXCEPT !.pc = "done"])
                /\ UNCHANGED activity
           ELSE IF SettingsRejected(v)
           THEN /\ activity' = Append1(activity,
                                   log_error(f.channel.id, f.post,
                                             "invalid_settings",
                                             [error |-> v.msg]))
                /\ Step(f, [f EXCEPT !.pc = "done", !.writes = @ + 1])
           ELSE /\ \E emojis \in select_random_emojis(settings) :
                      Step(f, AfterEmoji([f EXCEPT !.emojis = emojis]))
                /\ UNCHANGED activity
        /\ UNCHANGED <<chanDb, boosted, applied, last_checked, ncalls, napi,
                       returned>>
        /\ UNCHANGED <<monitorVars, probe, scheduler>>

\* One call of bot.set_message_reaction inside _add_reaction_with_retry and
\* what the retry loop and the emoji loop do with its answer.
ReactStep(f, o, w) ==
    LET emoji == f.emojis[f.idx]
        exc   == [kind |-> o, retry_after |-> w]
        g     == [f EXCEPT !.calls = @ + 1,
                           !.forbidden = IF o = "forbidden" THEN @ + 1 ELSE @,
                           !.outs = Append(@, [o |-> o, wait |-> w])]
    IN  /\ BagIn(f, frames)
        /\ f.pc = "react"
        /\ napi' = napi + 1
        /\ (o = "retry_after") = (w \in Waits)
        /\ IF o = "ok"
           THEN /\ applied' = applied \cup {<<f.channel.id, f.post, emoji>>}
                /\ Step(f, [g EXCEPT !.pc = "log_added",
                                     !.reactions_added = @ + 1,
                                     !.succ = Append(@, emoji)])
           ELSE /\ UNCHANGED applied
                /\ Step(f, IF CaughtByRetry(o) /\ RetryAgain(f.attempt)
                           THEN [g EXCEPT !.pc = "retry_sleep", !.exc = exc]
                           ELSE IF CaughtByLoop(o)
                           THEN [g EXCEPT !.pc = "handle_err", !.exc = exc]
                           ELSE [g EXCEPT !.pc = "raised", !.exc = exc])
        /\ UNCHANGED <<chanDb, boosted, activity, last_checked, ncalls,
                       returned>>
        /\ UNCHANGED <<monitorVars, probe, scheduler>>

\* One call of bot.set_message_reaction inside _add_reaction_with_retry,
\* as long as the budget of external calls of the run lasts.
React(f, o, w) ==
    /\ napi < MaxApiCalls
    /\ ReactStep(f, o, w)

\* asyncio.sleep(e.retry_after), then the next attempt of the for loop; a
\* loop that runs out of attempts falls through and returns normally.
RetrySleep(f) ==
    LET g == [f EXCEPT !.sleeps = Append(@, RetrySleepDuration(f.exc)),
                       !.attempt = @ + 1]
    IN  /\ BagIn(f, frames)
        /\ f.pc = "retry_sleep"
        /\ Step(f, IF g.attempt < max_retries
                   THEN [g EXCEPT !.pc = "react"]
                   ELSE [g EXCEPT !.pc = "log_added",
                                  !.reactions_added = @ + 1,
                                  !.succ = Append(@, f.emojis[f.idx])])
        /\ UNCHANGED <<chanDb, boosted, activity, applied, last_checked,
                       ncalls, napi, returned>>
        /\ UNCHANGED <<monitorVars, probe, scheduler>>

\* log_reaction_added, then the decision to delay.
LogAdded(f) ==
    LET g == [f EXCEPT !.writes = @ + 1]
    IN  /\ BagIn(f, frames)
        /\ f.pc = "log_added"
        /\ activity' = Append1(activity,
                           log_reaction_added(f.channel.id, f.post,
                                              f.emojis[f.idx]))
        /\ Step(f, IF DelayAfter(f) THEN [g EXCEPT !.pc = "delay"]
                   ELSE AfterEmoji(g))
        /\ UNCHANGED <<chanDb, boosted, applied, last_checked, ncalls, napi,
                       returned>>
        /\ UNCHANGED <<monitorVars, probe, scheduler>>

\* asyncio.sleep(random.uniform(delay_min, delay_max))
Delay(f, d) ==
    LET settings == from_dict(f.channel.reaction_settings)
    IN  /\ BagIn(f, frames)
        /\ f.pc = "delay"
        /\ d \in settings.delay_min .. settings.delay_max
        /\ Step(f, AfterEmoji(f))
        /\ UNCHANGED <<chanDb, boosted, activity, applied, last_checked,
                       ncalls, napi, returned>>
        /\ UNCHANGED <<monitorVars, probe, scheduler>>

\* _handle_api_error: the log_error of the branch taken.
HandleErr(f) ==
    LET g == [f EXCEPT !.writes = @ + 1]
    IN  /\ BagIn(f, frames)
        /\ f.pc = "handle_err"
        /\ activity' = Append1(activity,
                           handle_api_error(f.channel, f.post,
                                            f.emojis[f.idx], f.exc))
        /\ Step(f, IF DisablesReactionMode(f.exc) THEN [g EXCEPT !.pc = "disable"]
                   ELSE AfterEmoji(g))
        /\ UNCHANGED <<chanDb, boosted, applied, last_checked, ncalls, napi,
                       returned>>
        /\ UNCHANGED <<monitorVars, probe, scheduler>>

\* _disable_reaction_mode: assign channel.mode, commit self.db.
Disable(f) ==
    LET mode == disable_reaction_mode(f.channel.mode)
    IN  /\ BagIn(f, frames)
        /\ f.pc = "disable"
        /\ Step(f, AfterEmoji([f EXCEPT !.channel.mode = mode]))
        /\ chanDb' = IF CommitPersistsChannel(f.sess)
                     THEN [chanDb EXCEPT ![f.channel.id].mode = mode]
                     ELSE chanDb
        /\ UNCHANGED <<boosted, activity, applied, last_checked, ncalls, napi,
                       returned>>
        /\ UNCHANGED <<monitorVars, probe, scheduler>>

\* _mark_as_boosted: add the row and commit; the unique index rejects a
\* second row for the pair and the IntegrityError leaves boost_post.
Mark(f) ==
    LET row == mark_as_boosted(f)
    IN  /\ BagIn(f, frames)
        /\ f.pc = "mark"
        /\ IF InsertAllowed(boosted, row)
           THEN /\ boosted' = Append1(boosted, row)
                /\ Step(f, [f EXCEPT !.pc = "log_completed", !.writes = @ + 1])
           ELSE /\ UNCHANGED boosted
                /\ Step(f, [f EXCEPT !.pc = "raised",
                                     !.exc = [kind |-> "integrity",
                                              retry_after |-> 0]])
        /\ UNCHANGED <<chanDb, activity, applied, last_checked, ncalls, napi,
                       returned>>
        /\ UNCHANGED <<monitorVars, probe, scheduler>>

\* log_boost_completed, the last statement of boost_post.
LogCompleted(f) ==
    /\ BagIn(f, frames)
    /\ f.pc = "log_completed"
    /\ activity' = Append1(activity,
                       log_boost_completed(f.channel.id, f.post,
                                           f.reactions_added))
    /\ Step(f, [f EXCEPT !.pc = "done", !.writes = @ + 1])
    /\ UNCHANGED <<chanDb, boosted, applied, last_checked, ncalls, napi,
                   returned>>
    /\ UNCHANGED <<monitorVars, probe, scheduler>>

\* The `except Exception` of process_channel_post around boost_post: the
\* exception is logged and the call goes on to its normal end.
Swallow(f) ==
    /\ BagIn(f, frames)
    /\ f.pc = "raised"
    /\ f.via = "monitor"
    /\ CaughtByProcess(f.exc.kind)
    /\ Step(f, [f EXCEPT !.pc = "swallowed"])
    /\ history' = [history EXCEPT !.swallowed =
                       @ \cup {<<f.channel.id, f.post>>}]
    /\ UNCHANGED <<chanDb, boosted, activity, applied, last_checked, ncalls,
                   napi, returned, reaction_service, sweep>>
    /\ UNCHANGED <<probe, scheduler>>

\* Mutant: the CancelledError is handled like an error of the host API and
\* the emoji loop goes on.
AfterCancel_caught(f) == AfterEmoji(f)

\* asyncio.CancelledError raised at an await of boost_post: a BaseException,
\* which neither `except TelegramRetryAfter`, `except TelegramAPIError` nor
\* the `except Exception` of the callers catches, so the call unwinds.
AfterCancel(f) ==
    [f EXCEPT !.pc = "cancelled",
              !.exc = [kind |-> "cancelled", retry_after |-> 0]]

\* The task of the call is cancelled while it is suspended in one of the
\* two sleeps of boost_post.
Cancel(f) ==
    /\ BagIn(f, frames)
    /\ f.pc \in {"delay", "retry_sleep"}
    /\ Step(f, AfterCancel(f))
    /\ history' = [history EXCEPT !.cancelled =
                       @ \cup {<<f.channel.id, f.post>>}]
    /\ UNCHANGED <<chanDb, boosted, activity, applied, last_checked, ncalls,
                   napi, returned, reaction_service, sweep>>
    /\ UNCHANGED <<probe, scheduler>>

\* The outermost call has returned, or raised to its caller: the task ends
\* and its locals are gone.
Return(f) ==
    /\ BagIn(f, frames)
    /\ \/ f.pc \in {"done", "swallowed", "unrouted", "dropped", "skipped",
                    "cancelled"}
       \/ f.pc = "raised" /\ (f.via = "direct" \/ ~CaughtByProcess(f.exc.kind))
    /\ frames' = frames (-) SetToBag({f})
    /\ returned' = IF f.pc \in {"unrouted", "dropped", "skipped"}
                   THEN returned
                   ELSE returned \cup {<<f.channel.id, f.post>>}
    /\ UNCHANGED <<chanDb, boosted, activity, applied, last_checked, ncalls,
                   napi>>
    /\ UNCHANGED <<monitorVars, probe, scheduler>>

Frames == BagToSet(frames)

(***************************************************************************)
(* Spec: post events and boost_post calls arrive one after the other; the  *)
(* host API answers each call with any outcome.                            *)
(***************************************************************************)
Next ==
    \/ \E c \in Channels, p \in Posts :
          frames = EmptyBag /\ BoostPostDirect(c, p)
    \/ \E c \in Channels, p \in Posts :
          frames = EmptyBag /\ HandleChannelPost(c, p)
    \/ \E f \in Frames : Check(f)
    \/ \E f \in Frames, o \in Outcomes, w \in Waits \cup {0} : React(f, o, w)
    \/ \E f \in Frames : RetrySleep(f)
    \/ \E f \in Frames : LogAdded(f)
    \/ \E f \in Frames, d \in 0..DefaultDelayMax : Delay(f, d)
    \/ \E f \in Frames : HandleErr(f)
    \/ \E f \in Frames : Disable(f)
    \/ \E f \in Frames : Mark(f)
    \/ \E f \in Frames : LogCompleted(f)
    \/ \E f \in Frames : Swallow(f)
    \/ \E f \in Frames : Return(f)

Spec == Init /\ [][Next]_vars

(***************************************************************************)
(* SpecRace: boost_post calls may also start while another call is in      *)
(* progress, so calls interleave at every await.  The host API answers a   *)
(* call with success or with an error other than a rate limit.             *)
(***************************************************************************)
RaceOutcomes == {"ok", "api_error"}

NextRace ==
    \/ \E c \in Channels, p \in Posts : BoostPostDirect(c, p)
    \/ \E f \in Frames : Check(f)
    \/ \E f \in Frames, o \in RaceOutcomes : React(f, o, 0)
    \/ \E f \in Frames : LogAdded(f)
    \/ \E f \in Frames, d \in 0..DefaultDelayMax : Delay(f, d)
    \/ \E f \in Frames : HandleErr(f)
    \/ \E f \in Frames : Mark(f)
    \/ \E f \in Frames : LogCompleted(f)
    \/ \E f \in Frames : Return(f)

SpecRace == Init /\ [][NextRace]_vars

(***************************************************************************)
(* SpecCancel: Spec, where the task of a call may also be cancelled while  *)
(* it sleeps (a shutdown of the event loop cancels the pending tasks).     *)
(***************************************************************************)
NextCancel ==
    \/ Next
    \/ \E f \in Frames : Cancel(f)

SpecCancel == Init /\ [][NextCancel]_vars

(***************************************************************************)
(* SpecLive: boost_post calls arrive one after the other, and every        *)
(* external call and every sleep of a call in progress returns, so the     *)
(* event loop resumes the call and it takes its next step.  The host API   *)
(* answers with success, a rate limit or another API error, as often as it *)
(* likes: the number of external calls is not capped here.                 *)
(***************************************************************************)
LiveOutcomes == {"ok", "retry_after", "api_error"}

StepLive ==
    \/ \E f \in Frames : Check(f)
    \/ \E f \in Frames, o \in LiveOutcomes, w \in Waits \cup {0} :
          ReactStep(f, o, w)
    \/ \E f \in Frames : RetrySleep(f)
    \/ \E f \in Frames : LogAdded(f)
    \/ \E f \in Frames, d \in 0..DefaultDelayMax : Delay(f, d)
    \/ \E f \in Frames : HandleErr(f)
    \/ \E f \in Frames : Mark(f)
    \/ \E f \in Frames : LogCompleted(f)
    \/ \E f \in Frames : Return(f)

NextLive ==
    \/ \E c \in Channels, p \in Posts :
          frames = EmptyBag /\ BoostPostDirect(c, p)
    \/ StepLive

SpecLive == Init /\ [][NextLive]_vars /\ WF_vars(StepLive)

(***************************************************************************)
(* PostMonitorService.monitor_channels and _log_error.                     *)
(***************************************************************************)
\* post_id None of a monitoring error row (message ids start at 1).
NoPost == 0

\* Outcomes of the channel query of _get_active_channels.
QueryOutcomes == {"ok", "db_error"}

\* Outcomes of bot.get_chat inside _fetch_new_posts: a chat, a TelegramError,
\* or another exception.
FetchOutcomes == {"ok", "TelegramError", "Exception"}

\* _get_active_channels: the active channels in the order the store returns
\* them (the query has no ORDER BY), or [] when the query raises.
get_active_channels(o) ==
    IF o = "ok"
    THEN { order \in [1..Cardinality(DOMAIN chanDb) -> DOMAIN chanDb] :
             \A i, j \in DOMAIN order : i # j => order[i] # order[j] }
    ELSE { <<>> }

\* _fetch_new_posts: whether the exception of get_chat is caught inside
\* (`except TelegramError` and `except Exception`, both returning []).
FetchSwallows(o) == TRUE

\* _fetch_new_posts: `new_posts = []` on every path that returns.
fetch_new_posts(o) == <<>>

\* _log_error: the row it has log_error write.  The details carry their own
\* 'error_type' key, the name of the exception class, and log_error merges
\* them over the kind it was passed.
monitor_log_error(c, error_name) ==
    log_error(c, NoPost, "monitoring_error",
              [error |-> error_name, error_type |-> error_name,
               timestamp |-> "now"])

\* Mutant: the sweep ends at the first channel whose discovery failed.
RestOfSweep_stops_on_failure(todo, o) ==
    IF o = "ok" THEN Tail(todo) ELSE <<>>

\* monitor_channels: `for channel in channels` with the per-channel try.
RestOfSweep(todo, o) == Tail(todo)

\* monitor_channels is called: the channel query.
MonitorStart(o) ==
    /\ sweep.pc \in {"idle", "returned"}
    /\ ncalls < MaxCalls
    /\ ncalls' = ncalls + 1
    /\ \E channels \in get_active_channels(o) :
          sweep' = [pc |-> "fetch", listed |-> channels, todo |-> channels,
                    visited |-> <<>>, failed |-> {}]
    /\ UNCHANGED <<chanDb, boosted, activity, applied, last_checked, frames,
                   napi, returned, reaction_service, history>>
    /\ UNCHANGED <<probe, scheduler>>

\* One round of the channel loop: _fetch_new_posts with its get_chat, the
\* loop over the posts it returned, and the handler of what it raised.
MonitorFetch(o) ==
    /\ sweep.pc = "fetch"
    /\ sweep.todo # <<>>
    /\ LET c         == Head(sweep.todo)
           raised    == o # "ok" /\ ~FetchSwallows(o)
           new_posts == IF raised THEN <<>> ELSE fetch_new_posts(o)
       IN  /\ new_posts = <<>>
           /\ activity' = IF raised
                          THEN Append1(activity, monitor_log_error(c, o))
                          ELSE activity
           /\ sweep' = [sweep EXCEPT
                          !.todo = RestOfSweep(@, o),
                          !.visited = Append(@, c),
                          !.failed = IF o = "ok" THEN @ ELSE @ \cup {c}]
    /\ UNCHANGED <<chanDb, boosted, applied, last_checked, frames, ncalls,
                   napi, returned, reaction_service, history>>
    /\ UNCHANGED <<probe, scheduler>>

\* monitor_channels returns.
MonitorEnd ==
    /\ sweep.pc = "fetch"
    /\ sweep.todo = <<>>
    /\ sweep' = [sweep EXCEPT !.pc = "returned"]
    /\ UNCHANGED <<chanDb, boosted, activity, applied, last_checked, frames,
                   ncalls, napi, returned, reaction_service, history>>
    /\ UNCHANGED <<probe, scheduler>>

\* _log_error(channel, error) called on its own, as the test-suite does.
LogErrorDirect(c, error_name) ==
    /\ ncalls < MaxCalls
    /\ ncalls' = ncalls + 1
    /\ activity' = Append1(activity, monitor_log_error(c, error_name))
    /\ UNCHANGED <<chanDb, boosted, applied, last_checked, frames, napi,
                   returned, reaction_service, sweep, history>>
    /\ UNCHANGED <<probe, scheduler>>

(***************************************************************************)
(* SpecMonitor: a PostMonitorService as the test-suite constructs it, with *)
(* or without collaborator, over two channels of any mode.  Deliveries to  *)
(* process_channel_post interleave at the awaits of the boost they start,  *)
(* and with the sweeps of monitor_channels.                                *)
(***************************************************************************)
MonitorSettings == [emojis |-> <<"a">>]

MonitorOutcomes == {"ok", "api_error", "exception"}

InitMonitor ==
    /\ \E modes \in [MonitorChannels -> Modes] :
          chanDb = [c \in MonitorChannels |->
                       [mode |-> modes[c], reaction_settings |-> MonitorSettings]]
    /\ reaction_service \in BOOLEAN
    /\ probe = NoProbe
    /\ Constructed

NextMonitor ==
    \/ \E c \in MonitorChannels, p \in MonitorPosts :
          ProcessChannelPostDirect(c, p)
    \/ \E f \in Frames : Check(f)
    \/ \E f \in Frames, o \in MonitorOutcomes : React(f, o, 0)
    \/ \E f \in Frames : LogAdded(f)
    \/ \E f \in Frames : HandleErr(f)
    \/ \E f \in Frames : Mark(f)
    \/ \E f \in Frames : LogCompleted(f)
    \/ \E f \in Frames : Swallow(f)
    \/ \E f \in Frames : Return(f)
    \/ \E o \in QueryOutcomes : MonitorStart(o)
    \/ \E o \in FetchOutcomes : MonitorFetch(o)
    \/ MonitorEnd
    \/ \E c \in MonitorChannels : LogErrorDirect(c, "Exception")

SpecMonitor == InitMonitor /\ [][NextMonitor]_vars

(***************************************************************************)
(* SpecEvents: the dispatcher hands channel posts to _handle_channel_post, *)
(* one task per update, so the handlers and the boosts they start          *)
(* interleave at every await.                                              *)
(***************************************************************************)
\* ReactionBoostService.__init__: self.db and the session of self.logger,
\* the session boost_post reads and writes the stores through.
\* _initialize_services opens one session and constructs the one service
\* object with it, so it is the same for every call.
StorageSession(f) == "service"

InitEvents ==
    /\ \E modes \in [MonitorChannels -> Modes] :
          chanDb = [c \in MonitorChannels |->
                       [mode |-> modes[c], reaction_settings |-> MonitorSettings]]
    /\ reaction_service = TRUE
    /\ probe = NoProbe
    /\ Constructed

NextEvents ==
    \/ \E c \in MonitorChannels, p \in MonitorPosts : HandleChannelPost(c, p)
    \/ \E f \in Frames : Check(f)
    \/ \E f \in Frames, o \in MonitorOutcomes : React(f, o, 0)
    \/ \E f \in Frames : LogAdded(f)
    \/ \E f \in Frames : HandleErr(f)
    \/ \E f \in Frames : Mark(f)
    \/ \E f \in Frames : LogCompleted(f)
    \/ \E f \in Frames : Swallow(f)
    \/ \E f \in Frames : Return(f)

SpecEvents == InitEvents /\ [][NextEvents]_vars

(***************************************************************************)
(* SpecSettings: a caller constructs a ReactionSettings object, as the     *)
(* test-suite does, and calls validate() and _select_random_emojis on it.  *)
(***************************************************************************)
SettingsPools == { <<>>, <<"a">>, <<"a", "b">>, <<"a", "a">> }
SettingsCounts == {-1, 0, 1, 2, 3, MaxReactionCount, MaxReactionCount + 1}
SettingsDelays == {-1, 0, 1, 2}

SettingsInputs ==
    [emojis : SettingsPools, reaction_count : SettingsCounts,
     delay_min : SettingsDelays, delay_max : SettingsDelays,
     auto_boost : {TRUE},
     not_int : SUBSET {"reaction_count", "delay_min", "delay_max"}]

\* The object, the values it was constructed with, and the results of the
\* calls made so far (at most one each).
NewProbe(s) ==
    [held |-> TRUE, input |-> s, settings |-> s, validated |-> <<>>,
     selected |-> <<>>]

InitSettings ==
    /\ chanDb = [c \in Channels |->
                    [mode |-> "comment", reaction_settings |-> NoSettings]]
    /\ reaction_service = TRUE
    /\ Constructed
    /\ \E s \in SettingsInputs : probe = NewProbe(s)

\* settings.validate(): reads the fields, assigns none.
Validate ==
    /\ probe.held
    /\ probe.validated = <<>>
    /\ probe' = [probe EXCEPT !.validated = <<validate(probe.settings)>>]
    /\ UNCHANGED <<chanDb, boosted, activity, applied, last_checked, frames,
                   ncalls, napi, returned, reaction_service, sweep, history,
                   scheduler>>

\* _select_random_emojis(settings): shuffles a copy of settings.emojis and
\* slices it.  boost_post calls it after validate() has passed; here it is
\* called, as the test-suite does, on its own, on any object whose
\* reaction_count is a count (an int, not negative).
SelectRandomEmojis ==
    /\ probe.held
    /\ probe.selected = <<>>
    /\ "reaction_count" \notin probe.settings.not_int
    /\ probe.settings.reaction_count >= 0
    /\ \E emojis \in select_random_emojis(probe.settings) :
          probe' = [probe EXCEPT !.selected = <<emojis>>]
    /\ UNCHANGED <<chanDb, boosted, activity, applied, last_checked, frames,
                   ncalls, napi, returned, reaction_service, sweep, history,
                   scheduler>>

NextSettings == Validate \/ SelectRandomEmojis

SpecSettings == InitSettings /\ [][NextSettings]_vars

(***************************************************************************)
(* RepostScheduler: start, stop and the loop task _run.  A task runs from  *)
(* one await to the next; Task.cancel() is a request that is delivered as  *)
(* a CancelledError when the task next runs.                               *)
(***************************************************************************)
\* Outcomes of one monitor_all_sources cycle: it returns, or raises.
CycleOutcomes == {"ok", "Exception"}

\* asyncio.create_task(self._run()): a task that has not run yet.
NewTask == [pc |-> "created", must_cancel |-> FALSE, cycles |-> 0]

\* Task.cancel(): without effect on a task that is done.
task_cancel(t) ==
    IF t.pc = "done" THEN t ELSE [t EXCEPT !.must_cancel = TRUE]

\* The loop tasks that are not done.
AliveTasks ==
    { i \in 1..Len(scheduler.tasks) : scheduler.tasks[i].pc # "done" }

\* start(): `if self.running: return`, else set the flag and create the task.
SchedulerStart ==
    /\ scheduler.calls < MaxSchedulerCalls
    /\ IF scheduler.running
       THEN scheduler' = [scheduler EXCEPT !.calls = @ + 1]
       ELSE /\ Len(scheduler.tasks) < MaxLoops
            /\ scheduler' = [scheduler EXCEPT
                                !.calls = @ + 1,
                                !.running = TRUE,
                                !.tasks = Append(@, NewTask),
                                !.task = Len(scheduler.tasks) + 1]
    /\ UNCHANGED coreVars

\* stop() up to its await: `if not self.running: return`, else clear the
\* flag, cancel self.task and wait for it.  cycles0 is the number of cycles
\* the task had started when it was cancelled (read by the properties only).
SchedulerStopBegin ==
    /\ scheduler.calls < MaxSchedulerCalls
    /\ IF ~scheduler.running
       THEN scheduler' = [scheduler EXCEPT !.calls = @ + 1]
       ELSE IF scheduler.task = 0
       THEN scheduler' = [scheduler EXCEPT
                             !.calls = @ + 1,
                             !.running = FALSE,
                             !.stops = @ \cup {[pc |-> "returned", task |-> 0,
                                                cycles0 |-> 0]}]
       ELSE scheduler' = [scheduler EXCEPT
                             !.calls = @ + 1,
                             !.running = FALSE,
                             !.tasks[scheduler.task] = task_cancel(@),
                             !.stops = @ \cup
                                 {[pc |-> "await", task |-> scheduler.task,
                                   cycles0 |->
                                     scheduler.tasks[scheduler.task].cycles]}]
    /\ UNCHANGED coreVars

\* Mutant: stop() does not wait for the task.
StopMayReturn_at_once(t) == TRUE

\* stop(): `await self.task` ends when the task is done; the CancelledError
\* of a cancelled task is swallowed.
StopMayReturn(t) == t.pc = "done"

\* stop() resumes from its await and returns.
SchedulerStopEnd(s) ==
    /\ s \in scheduler.stops
    /\ s.pc = "await"
    /\ StopMayReturn(scheduler.tasks[s.task])
    /\ scheduler' = [scheduler EXCEPT
                        !.stops = (@ \ {s}) \cup {[s EXCEPT !.pc = "returned"]}]
    /\ UNCHANGED coreVars

\* The caller of a stop() that has returned goes on.
SchedulerStopLeave(s) ==
    /\ s \in scheduler.stops
    /\ s.pc = "returned"
    /\ scheduler' = [scheduler EXCEPT !.stops = @ \ {s}]
    /\ UNCHANGED coreVars

\* One step of _run, from one await to the next.  A pending cancellation
\* ends the task: before its first step the coroutine never runs, inside a
\* cycle and inside the sleep the CancelledError reaches a `break`.
\* Otherwise: the test of `while self.running`, a monitoring cycle (which
\* returns or raises an Exception that is logged), the interval sleep.
RunStep(i, o) ==
    LET t == scheduler.tasks[i]
    IN  /\ i \in AliveTasks
        /\ IF t.must_cancel
           THEN scheduler' = [scheduler EXCEPT !.tasks[i].pc = "done"]
           ELSE IF t.pc = "cycle"
           THEN scheduler' = [scheduler EXCEPT !.tasks[i].pc = "sleep"]
           ELSE IF scheduler.running
           THEN /\ t.cycles < MaxCycles
                /\ scheduler' = [scheduler EXCEPT !.tasks[i].pc = "cycle",
                                                  !.tasks[i].cycles = @ + 1]
           ELSE scheduler' = [scheduler EXCEPT !.tasks[i].pc = "done"]
        /\ UNCHANGED coreVars

InitScheduler ==
    /\ chanDb = [c \in Channels |->
                    [mode |-> "comment", reaction_settings |-> NoSettings]]
    /\ reaction_service = TRUE
    /\ probe = NoProbe
    /\ Constructed

(***************************************************************************)
(* SpecScheduler: start() and stop() are called from any tasks, so a call  *)
(* may arrive while a stop() is suspended in its await.                    *)
(***************************************************************************)
NextScheduler ==
    \/ SchedulerStart
    \/ SchedulerStopBegin
    \/ \E s \in scheduler.stops : SchedulerStopEnd(s)
    \/ \E s \in scheduler.stops : SchedulerStopLeave(s)
    \/ \E i \in AliveTasks, o \in CycleOutcomes : RunStep(i, o)

SpecScheduler == InitScheduler /\ [][NextScheduler]_vars

(***************************************************************************)
(* SpecSchedulerSeq: one caller, which awaits each start() and stop()      *)
(* before its next call, as start_bot and stop_bot do.                     *)
(***************************************************************************)
NextSchedulerSeq ==
    \/ scheduler.stops = {} /\ SchedulerStart
    \/ scheduler.stops = {} /\ SchedulerStopBegin
    \/ \E s \in scheduler.stops : SchedulerStopEnd(s)
    \/ \E s \in scheduler.stops : SchedulerStopLeave(s)
    \/ \E i \in AliveTasks, o \in CycleOutcomes : RunStep(i, o)

SpecSchedulerSeq == InitScheduler /\ [][NextSchedulerSeq]_vars

(***************************************************************************)
(* Properties.                                                             *)
(***************************************************************************)
BoostedCount(c, p) == CountRows(boosted, RowsOf(boosted, c, p))

ActivityOf(c, p, type) ==
    { r \in RowsOf(activity, c, p) : r.activity_type = type }

ErrorsOf(c, p, kind) ==
    { r \in ActivityOf(c, p, "error") : r.details.error_type = kind }

\* C1 (as stated): a boost_post call that follows an earlier call for the same
\* channel and post performs no external add-reaction call and writes no
\* BoostedPost or ActivityLog row.
C1_SecondCallIsNoOp ==
    \A f \in Frames : f.second => f.calls = 0 /\ f.writes = 0

\* C1 (amended): a boost_post call entered while a BoostedPost row exists for
\* its channel and post performs no external add-reaction call, writes no
\* row, and leaves that single row and its reaction count as they were.
C1_AlreadyBoostedIsNoOp ==
    \A f \in Frames :
        f.entryRows # {} =>
            /\ f.calls = 0
            /\ f.writes = 0
            /\ f.pc \in {"check", "done"}
            /\ RowsOf(boosted, f.channel.id, f.post) = f.entryRows
            /\ BoostedCount(f.channel.id, f.post) = 1

\* A second call has returned at the dedup check, the row of the first in place.
C1_Witness ==
    \E f \in Frames :
        /\ f.second
        /\ f.entryRows # {}
        /\ f.pc = "done"
        /\ napi > 0

\* C2: under any interleaving of boost_post calls, every channel and post has
\* at most one BoostedPost row and at most one boost_completed row.
C2_AtMostOneCompletion ==
    \A c \in Channels, p \in Posts :
        /\ BoostedCount(c, p) <= 1
        /\ CountRows(activity, ActivityOf(c, p, "boost_completed")) <= 1

\* Two calls passed the dedup check, both added reactions, and the insert of
\* the second writer failed on the unique index.
C2_Witness ==
    \E f \in Frames :
        /\ f.pc = "raised"
        /\ f.exc.kind = "integrity"
        /\ f.entryRows = {}
        /\ f.reactions_added > 0
        /\ BoostedCount(f.channel.id, f.post) = 1

\* The set of elements of a sequence.
Range(seq) == { seq[i] : i \in 1..Len(seq) }

\* A first call for its pair that selected emojis and has ended, by return
\* or by an exception.
EndedFirstRun(f) ==
    /\ f.pc \in {"done", "raised"}
    /\ f.entryRows = {}
    /\ ~f.second
    /\ f.emojis # <<>>

\* C3: a boost_post run that selected emojis attempts every one of them,
\* whichever of them failed, and when at least one succeeded the BoostedPost
\* row and the boost_completed row both carry the number of emojis whose
\* external call succeeded.
C3_EveryEmojiAttempted ==
    \A f \in Frames :
        EndedFirstRun(f) =>
            /\ f.idx = Len(f.emojis)
            /\ Len(f.succ) > 0 =>
                 /\ \E r \in RowsOf(boosted, f.channel.id, f.post) :
                        r.reaction_count = Len(f.succ)
                 /\ \E r \in ActivityOf(f.channel.id, f.post, "boost_completed") :
                        r.details.reaction_count = Len(f.succ)

\* C4: the emojis_used of the BoostedPost row a run has written are exactly
\* the emojis whose add-reaction call succeeded in that run.
C4_EmojisUsedAreSucceeded ==
    \A f \in Frames :
        (f.pc \in {"log_completed", "done"} /\ f.entryRows = {}) =>
            \A r \in RowsOf(boosted, f.channel.id, f.post) :
                Range(r.emojis_used) = Range(f.succ)

\* C5: a boost_post run that ended has written a BoostedPost row if and only
\* if at least one reaction succeeded in it; with zero successes there is no
\* boost_completed row either, and a later call that finds no row and selects
\* emojis calls the host API again.
C5_RowIffSuccess ==
    \A f \in Frames :
        /\ EndedFirstRun(f) =>
              /\ (BoostedCount(f.channel.id, f.post) = 1) <=> (Len(f.succ) > 0)
              /\ Len(f.succ) = 0 =>
                   ActivityOf(f.channel.id, f.post, "boost_completed") = {}
        /\ (f.second /\ f.entryRows = {} /\ f.emojis # <<>> /\ f.pc = "done")
              => f.calls > 0

C7_OtherErrorsNotRetried ==
    \A f \in Frames :
        \A i \in 1..Len(f.outs) :
            f.outs[i].o \notin {"ok", "retry_after"} =>
                /\ i = Len(f.outs)
                /\ Len(f.sleeps) = i - 1
                /\ f.exc.kind = f.outs[i].o
                /\ f.pc \notin {"react", "retry_sleep", "log_added", "delay"}

\* A forbidden answer to the attempt that follows a rate-limited one has left
\* the retry loop.
C7_Witness ==
    \E f \in Frames :
        /\ f.pc = "handle_err"
        /\ Len(f.outs) = 2
        /\ f.outs[1].o = "retry_after"
        /\ f.outs[2].o = "forbidden"
        /\ f.sleeps = <<f.outs[1].wait>>

\* C8: no failure of the add-reaction primitive leaves boost_post as an
\* exception.
C8_NoExceptionEscapes ==
    \A f \in Frames : ~(f.pc = "raised" /\ f.exc.kind \in Outcomes)

\* C9: once a forbidden answer has been handled for a channel (its
\* permission_error row is logged and the downgrade has run), a channel
\* record loaded from the store has mode comment.
C9_DowngradePersisted ==
    \A c \in Channels :
        ( /\ \E p \in Posts : ErrorsOf(c, p, "permission_error") # {}
          /\ \A f \in Frames :
                f.channel.id = c => f.pc \notin {"handle_err", "disable"} )
        => LoadChannel(c).mode = "comment"

\* A first call for its pair, on a channel of mode both, has returned with
\* every external call answered forbidden.
AlwaysForbiddenRun(f) ==
    /\ f.pc = "done"
    /\ ~f.second
    /\ f.mode0 = "both"
    /\ f.calls > 0
    /\ f.forbidden = f.calls

PermissionErrors(f) ==
    CountRows(activity, ErrorsOf(f.channel.id, f.post, "permission_error"))

\* C10 (as stated): after such a run the channel's mode is comment, exactly
\* one permission_error row exists for the post and no BoostedPost row.
C10_OnePermissionError ==
    \A f \in Frames :
        AlwaysForbiddenRun(f) =>
            /\ f.channel.mode = "comment"
            /\ PermissionErrors(f) = 1
            /\ BoostedCount(f.channel.id, f.post) = 0

\* C10 (amended): after such a run the mode of the channel object is
\* comment (and so is the stored mode when the object belongs to the
\* service's session), one permission_error row exists for the post per
\* selected emoji, and no BoostedPost row exists.
C10_PermissionErrorPerEmoji ==
    \A f \in Frames :
        AlwaysForbiddenRun(f) =>
            /\ f.channel.mode = "comment"
            /\ f.sess = "service" => LoadChannel(f.channel.id).mode = "comment"
            /\ f.calls = Len(f.emojis)
            /\ PermissionErrors(f) = Len(f.emojis)
            /\ BoostedCount(f.channel.id, f.post) = 0

\* Such a run with two selected emojis.
C10_Witness ==
    \E f \in Frames :
        /\ AlwaysForbiddenRun(f)
        /\ Len(f.emojis) = 2
        /\ PermissionErrors(f) = 2

\* The boost_post invocations process_channel_post has made for a pair.
Dispatches(c, p) == CopiesIn(<<c, p>>, history.dispatched)

\* The boost_post pcs: the frame is inside boost_post.
InBoost(f) ==
    f.pc \in {"check", "react", "retry_sleep", "log_added", "delay",
              "handle_err", "disable", "mark", "log_completed"}

\* C11: under any interleaving of process_channel_post calls, boost_post is
\* invoked at most once per channel and post id, and the high-water mark of
\* the channel is at or above the post id of every call it has dispatched
\* or dropped.
C11_DispatchedAtMostOnce ==
    /\ \A c \in MonitorChannels, p \in MonitorPosts : Dispatches(c, p) <= 1
    /\ \A f \in Frames :
          f.via = "monitor" =>
              dict_get(last_checked, f.channel.id, 0) >= f.post

\* A second delivery of a post id has been dropped while the boost of the
\* first delivery is still at its external call.
C11_Witness ==
    \E f, g \in Frames :
        /\ f.via = "monitor" /\ f.pc = "react"
        /\ g.via = "monitor" /\ g.pc = "dropped"
        /\ g.channel.id = f.channel.id
        /\ g.post = f.post
        /\ Dispatches(f.channel.id, f.post) = 1

\* A boost of the post has failed for every emoji it tried: error rows of the
\* reaction loop, no reaction added, no BoostedPost row.
TotalFailure(c, p) ==
    /\ BoostedCount(c, p) = 0
    /\ ActivityOf(c, p, "reaction_added") = {}
    /\ \E kind \in {"unknown_error", "rate_limit", "permission_error"} :
          ErrorsOf(c, p, kind) # {}

\* C12: a delivery to process_channel_post of a post whose earlier boost
\* ended in total failure is not dropped at the high-water mark: it leads
\* to a new boost attempt.
C12_RetryAfterTotalFailure ==
    \A f \in Frames :
        ~(f.pc = "dropped" /\ TotalFailure(f.channel.id, f.post))

\* C13: a process_channel_post call with a post id above the high-water mark
\* invokes boost_post exactly when the mode of the channel is reaction or
\* both and a collaborator is configured; in either case the mark is raised
\* to the post id.
C13_DispatchIffRouted ==
    \A f \in Frames :
        (f.via = "monitor" /\ f.pc # "dropped") =>
            /\ dict_get(last_checked, f.channel.id, 0) >= f.post
            /\ (f.pc # "skipped") <=>
                   (f.mode0 \in {"reaction", "both"} /\ reaction_service)
            /\ (f.pc # "skipped") <=>
                   (Dispatches(f.channel.id, f.post) = 1)

\* A delivery to a channel of mode both was skipped for the missing
\* collaborator, with the mark raised to the post id.
C13_Witness ==
    \E f \in Frames :
        /\ f.pc = "skipped"
        /\ f.mode0 = "both"
        /\ ~reaction_service
        /\ last_checked[f.channel.id] = f.post
        /\ f.post = MaxMonitorPost

\* C14: process_channel_post never ends by raising to its caller, and after
\* it has swallowed an exception of boost_post, a delivery of a post above
\* the mark of a routed channel, the same channel or another, is dispatched
\* to boost_post as before.
C14_ErrorIsolation ==
    /\ [][\A f \in Frames :
             (f.via = "monitor" /\ Return(f)) => f.pc # "raised"]_vars
    /\ [](\A f \in Frames :
             ( /\ history.swallowed # {}
               /\ f.via = "monitor"
               /\ f.pc # "dropped"
               /\ RoutesToBoost(f.mode0, reaction_service) )
             => f.pc # "skipped" /\ Dispatches(f.channel.id, f.post) = 1)

\* After the exception of one channel's boost was swallowed, a post of the
\* other channel is inside boost_post.
C14_Witness ==
    \E f \in Frames :
        /\ f.via = "monitor"
        /\ f.pc = "react"
        /\ history.swallowed # {}
        /\ \A sp \in history.swallowed : sp[1] # f.channel.id

\* C15: a boost_post call on a channel without reaction settings, or whose
\* settings have auto_boost false, makes no external call, writes no row of
\* any kind, whatever the other fields are, and leaves the mode of the
\* channel as it was, in the object and in the store.
C15_DisabledIsNoOp ==
    \A f \in Frames :
        f.pc \notin {"unrouted", "dropped", "skipped"}
        /\ ( \/ HasNoSettings(f.channel.reaction_settings)
             \/ ~from_dict(f.channel.reaction_settings).auto_boost )
        => /\ f.pc \in {"check", "done"}
           /\ f.calls = 0
           /\ f.writes = 0
           /\ f.channel.mode = f.mode0
           /\ chanDb[f.channel.id].mode = f.mode0
           /\ (~f.second) =>
                 /\ RowsOf(boosted, f.channel.id, f.post) = {}
                 /\ RowsOf(activity, f.channel.id, f.post) = {}

\* A first call has returned at the auto_boost gate although its other
\* fields fail validation.
C15_Witness ==
    \E f \in Frames :
        /\ f.pc = "done"
        /\ ~f.second
        /\ f.via = "direct" /\ f.sess = "service"
        /\ ~HasNoSettings(f.channel.reaction_settings)
        /\ ~from_dict(f.channel.reaction_settings).auto_boost
        /\ ~validate(from_dict(f.channel.reaction_settings)).ok

\* The settings of the call have auto_boost true and fail validate().
InvalidSettingsCall(f) ==
    /\ f.pc \notin {"unrouted", "dropped", "skipped"}
    /\ ~HasNoSettings(f.channel.reaction_settings)
    /\ from_dict(f.channel.reaction_settings).auto_boost
    /\ ~validate(from_dict(f.channel.reaction_settings)).ok

\* C16: a boost_post call with auto_boost true and settings that fail
\* validate() makes no external call and writes no BoostedPost row; when it
\* has returned it has written one row, an error of kind invalid_settings
\* that carries the validation message, and a first call leaves exactly
\* that one row for the post.
C16_InvalidSettingsLogged ==
    \A f \in Frames :
        InvalidSettingsCall(f) =>
            /\ f.pc \in {"check", "done"}
            /\ f.calls = 0
            /\ BoostedCount(f.channel.id, f.post) = 0
            /\ f.pc = "done" =>
                 /\ f.writes = 1
                 /\ \A r \in RowsOf(activity, f.channel.id, f.post) :
                       /\ r.activity_type = "error"
                       /\ r.details =
                            [error_type |-> "invalid_settings",
                             error |-> validate(from_dict(
                                          f.channel.reaction_settings)).msg]
                 /\ (~f.second) =>
                       CountRows(activity,
                                 RowsOf(activity, f.channel.id, f.post)) = 1

\* A first call with a reaction_count above the pool size has returned with
\* its error row written.
C16_Witness ==
    \E f \in Frames :
        /\ InvalidSettingsCall(f)
        /\ f.pc = "done"
        /\ ~f.second
        /\ ErrorsOf(f.channel.id, f.post, "invalid_settings") # {}

\* A field of the object holds a number of the type validate() asks for.
IsNumber(s, field) == field \notin s.not_int

\* The five invariants of a ReactionSettings object.
FiveInvariants(s) ==
    /\ Len(s.emojis) > 0
    /\ IsNumber(s, "reaction_count")
    /\ 1 <= s.reaction_count /\ s.reaction_count <= 100
    /\ IsNumber(s, "delay_min") /\ IsNumber(s, "delay_max")
    /\ s.delay_min >= 0
    /\ s.delay_max >= s.delay_min
    /\ s.reaction_count <= Len(s.emojis)

\* The checks in the order of the claim, each with what makes it fail (a
\* comparison is only made on numbers) and its message.
ValidationOrder(s) ==
    << [fails |-> Len(s.emojis) = 0,
        msg |-> "At least one emoji must be selected"],
       [fails |-> ~IsNumber(s, "reaction_count"),
        msg |-> "Reaction count must be an integer"],
       [fails |-> IsNumber(s, "reaction_count")
                    /\ (s.reaction_count < 1 \/ s.reaction_count > 100),
        msg |-> "Reaction count must be between 1 and 100"],
       [fails |-> ~IsNumber(s, "delay_min") \/ ~IsNumber(s, "delay_max"),
        msg |-> "Delay values must be numbers"],
       [fails |-> IsNumber(s, "delay_min") /\ s.delay_min < 0,
        msg |-> "Minimum delay must be non-negative"],
       [fails |-> IsNumber(s, "delay_min") /\ IsNumber(s, "delay_max")
                    /\ s.delay_max < s.delay_min,
        msg |-> "Maximum delay must be greater than or equal to minimum delay"],
       [fails |-> IsNumber(s, "reaction_count")
                    /\ s.reaction_count > Len(s.emojis),
        msg |-> "Reaction count cannot exceed number of emojis"] >>

\* C17: validate() returns (True, None) exactly when the five invariants
\* hold; otherwise it returns False with the message of the first check of
\* the order that fails; the object is as it was constructed.
C17_ValidateFirstFailure ==
    probe.held =>
        /\ probe.settings = probe.input
        /\ \A i \in 1..Len(probe.validated) :
              LET r      == probe.validated[i]
                  checks == ValidationOrder(probe.input)
                  failed == { k \in 1..Len(checks) : checks[k].fails }
              IN  /\ r.ok <=> FiveInvariants(probe.input)
                  /\ r.ok <=> (failed = {})
                  /\ r.ok => r.msg = "None"
                  /\ (~r.ok) =>
                        \E k \in failed :
                            /\ \A j \in failed : k <= j
                            /\ r.msg = checks[k].msg

\* validate() has rejected an object that breaks the delay order and the
\* pool size at once, with the message of the delay order.
C17_Witness ==
    /\ probe.held
    /\ probe.validated # <<>>
    /\ probe.input.not_int = {}
    /\ probe.input.delay_min >= 0
    /\ probe.input.delay_max < probe.input.delay_min
    /\ probe.input.reaction_count = 2
    /\ Len(probe.input.emojis) = 1
    /\ probe.validated[1].msg =
          "Maximum delay must be greater than or equal to minimum delay"

\* How often x occurs in a sequence.
Occurrences(seq, x) == Cardinality({ i \in 1..Len(seq) : seq[i] = x })

Min(a, b) == IF a < b THEN a ELSE b

C19_SweepVisitsAll ==
    /\ sweep.pc \in {"idle", "fetch", "returned"}
    /\ sweep.pc # "idle" => sweep.visited \o sweep.todo = sweep.listed
    /\ sweep.pc = "returned" => sweep.visited = sweep.listed
    /\ sweep.failed \subseteq Range(sweep.visited)

\* A sweep has returned after the discovery failed for the first of its two
\* channels.
C19_Witness ==
    /\ sweep.pc = "returned"
    /\ Len(sweep.listed) = 2
    /\ sweep.listed[1] \in sweep.failed
    /\ sweep.visited = sweep.listed

\* C20: when the discovery of a channel's posts failed during a sweep, an
\* error row with no post id and the recorded kind monitoring_error exists
\* for that channel.
C20_MonitoringErrorLogged ==
    \A c \in sweep.failed :
        \E r \in ActivityOf(c, NoPost, "error") :
            r.details.error_type = "monitoring_error"

\* C21: a boost_post call is at its inter-reaction delay only after the
\* emoji it has just tried succeeded and when that emoji is not the last of
\* the selected ones, whatever happened to the emojis before it.
C21_DelayOnlyBetween ==
    \A f \in Frames :
        f.pc = "delay" =>
            /\ f.succ # <<>>
            /\ f.succ[Len(f.succ)] = f.emojis[f.idx]
            /\ f.idx < Len(f.emojis)

\* C22: a boost_post call cancelled at its inter-reaction delay or at its
\* rate-limit wait leaves the reactions it applied in place and has written
\* no BoostedPost row and no boost_completed row; a later call for the same
\* channel and post is not stopped by the dedup check: it selects
\* reaction_count emojis anew and makes an external call for each of them.
C22_CancelledRunLeavesNoRecord ==
    \A f \in Frames :
        /\ ( /\ f.pc \notin {"unrouted", "dropped", "skipped"}
             /\ ~f.second
             /\ <<f.channel.id, f.post>> \in history.cancelled ) =>
              /\ f.pc = "cancelled"
              /\ \A i \in 1..Len(f.succ) :
                    <<f.channel.id, f.post, f.succ[i]>> \in applied
              /\ BoostedCount(f.channel.id, f.post) = 0
              /\ ActivityOf(f.channel.id, f.post, "boost_completed") = {}
        /\ ( /\ f.second
             /\ <<f.channel.id, f.post>> \in history.cancelled
             /\ f.entryRows = {}
             /\ f.pc \in {"mark", "log_completed", "done"}
             /\ f.via = "direct" ) =>
              /\ Len(f.emojis) =
                     from_dict(f.channel.reaction_settings).reaction_count
              /\ f.idx = Len(f.emojis)
              /\ f.calls >= Len(f.emojis)

\* The first call applied one emoji and was cancelled at its delay; the
\* second call for the pair has tried both emojis again and has completed.
C22_Witness ==
    \E f \in Frames :
        /\ f.second
        /\ <<f.channel.id, f.post>> \in history.cancelled
        /\ f.entryRows = {}
        /\ f.pc = "done"
        /\ Len(f.succ) = 2
        /\ BoostedCount(f.channel.id, f.post) = 1

\* C23: no two boost_post calls that are in progress at the same time read
\* and write the stores through the same session.
C23_OwnSessionPerCall ==
    \A f \in Frames :
        InBoost(f) =>
            /\ CopiesIn(f, frames) = 1
            /\ \A g \in Frames \ {f} :
                  InBoost(g) => StorageSession(g) # StorageSession(f)

\* C24: under any interleaving of start and stop calls at most one loop
\* task of the scheduler is alive at any time.
C24_AtMostOneLoop == Cardinality(AliveTasks) <= 1

KeepsRows(old, new) ==
    \A r \in BagToSet(old) : CopiesIn(r, new) >= CopiesIn(r, old)

\* The step is one operation of the ActivityLogger.
LoggerOperation ==
    \/ \E f \in Frames : LogAdded(f)
    \/ \E f \in Frames : HandleErr(f)
    \/ \E f \in Frames : LogCompleted(f)
    \/ \E c \in MonitorChannels : LogErrorDirect(c, "Exception")

\* C26: no step of boost_post, process_channel_post, monitor_channels or
\* the ActivityLogger removes or changes a row of the BoostedPost or the
\* ActivityLog store, and every ActivityLogger operation adds exactly one
\* row, also when an equal row is stored already.
C26_AppendOnly ==
    [][ /\ KeepsRows(boosted, boosted')
        /\ KeepsRows(activity, activity')
        /\ BagCardinality(boosted') <= BagCardinality(boosted) + 1
        /\ BagCardinality(activity') <= BagCardinality(activity) + 1
        /\ LoggerOperation =>
              BagCardinality(activity') = BagCardinality(activity) + 1 ]_vars

\* The same event has been logged twice and the store holds two equal rows.
C26_Witness ==
    \E r \in BagToSet(activity) : CopiesIn(r, activity) = 2

\* The number of ActivityLog rows of a type for the post of a call.
LoggedBy(f, type) ==
    CountRows(activity, ActivityOf(f.channel.id, f.post, type))

Mark_of(marks, c) == dict_get(marks, c, 0)

\* No mark decreases in the step.
MarksGrow ==
    \A c \in MonitorChannels :
        Mark_of(last_checked', c) >= Mark_of(last_checked, c)

\* C28 (as stated): a delivery to process_channel_post for a routed channel
\* is dropped only when its post id was dispatched before, whatever the
\* order of arrival; no mark ever decreases, and a delivery for one channel
\* leaves the marks of the others as they were.
C28_DispatchedWhateverOrder ==
    /\ [](\A f \in Frames :
             ( /\ f.via = "monitor"
               /\ f.pc = "dropped"
               /\ RoutesToBoost(f.mode0, reaction_service) )
             => Dispatches(f.channel.id, f.post) >= 1)
    /\ [][MarksGrow]_vars

\* C28 (amended): a delivery to process_channel_post is dispatched to
\* boost_post if and only if the channel is routed and the post id is above
\* the mark of the channel at that moment; it leaves the mark at the larger
\* of the two and the marks of the other channels as they were; no mark
\* ever decreases.
C28_DispatchedIffAboveMark ==
    /\ [][\A c \in MonitorChannels, p \in MonitorPosts :
             ProcessChannelPostDirect(c, p) =>
                 /\ (CopiesIn(<<c, p>>, history'.dispatched)
                        = Dispatches(c, p) + 1)
                    <=> ( /\ p > Mark_of(last_checked, c)
                          /\ RoutesToBoost(chanDb[c].mode, reaction_service) )
                 /\ history'.dispatched # history.dispatched =>
                        CopiesIn(<<c, p>>, history'.dispatched)
                            = Dispatches(c, p) + 1
                 /\ Mark_of(last_checked', c) =
                        (IF p > Mark_of(last_checked, c)
                         THEN p ELSE Mark_of(last_checked, c))
                 /\ \A d \in MonitorChannels \ {c} :
                        Mark_of(last_checked', d) = Mark_of(last_checked, d)]_vars
    /\ [][MarksGrow]_vars

\* Post 1 of a routed channel arrived after post 2 and was dropped without
\* ever having been dispatched.
C28_Witness ==
    \E f \in Frames :
        /\ f.via = "monitor"
        /\ f.pc = "dropped"
        /\ f.post = 1
        /\ RoutesToBoost(f.mode0, reaction_service)
        /\ Dispatches(f.channel.id, 1) = 0
        /\ Dispatches(f.channel.id, 2) = 1
        /\ Mark_of(last_checked, f.channel.id) = 2

\* C29: a boost_post call never makes more than 3 external add-reaction
\* calls per unit of reaction_count, however often the answer is a rate
\* limit, and a call in progress eventually ends.
C29_BoostTerminates ==
    /\ [](\A f \in Frames :
             f.calls <= 3 * from_dict(f.channel.reaction_settings).reaction_count)
    /\ (frames # EmptyBag) ~> (frames = EmptyBag)

\* A call with two selected emojis has returned after six external calls,
\* every one of them answered with a rate limit.
C29_Witness ==
    \E f \in Frames :
        /\ f.pc = "done"
        /\ Len(f.emojis) = 2
        /\ f.calls = 6
        /\ f.succ = <<>>
        /\ LoggedBy(f, "error") >= 2

\* C30: the mode of a channel, in the object a call holds and in the store,
\* changes only to comment and only in the downgrade that follows a
\* forbidden answer: without a forbidden answer (rate limits, other errors,
\* invalid settings, success) a call leaves it as it was, a channel in
\* comment mode stays in comment, and no step sets a mode to reaction or
\* both.
C30_ModeOnlyDowngraded ==
    /\ [](\A f \in Frames :
             /\ f.forbidden = 0 => f.channel.mode = f.mode0
             /\ f.mode0 = "comment" => f.channel.mode = "comment"
             /\ f.channel.mode # f.mode0 => f.channel.mode = "comment")
    /\ [][\A c \in Channels :
             chanDb'[c].mode # chanDb[c].mode =>
                 /\ chanDb'[c].mode = "comment"
                 /\ \E f \in Frames :
                       /\ Disable(f)
                       /\ f.channel.id = c
                       /\ f.exc.kind = "forbidden"]_vars

\* A call on a channel of mode reaction was rate limited for its first
\* emoji and answered forbidden for its second; it has returned, and the
\* mode is comment in its object and in the store.
C30_Witness ==
    \E f \in Frames :
        /\ f.pc = "done"
        /\ f.mode0 = "reaction"
        /\ f.forbidden = 1
        /\ ErrorsOf(f.channel.id, f.post, "rate_limit") # {}
        /\ f.channel.mode = "comment"
        /\ chanDb[f.channel.id].mode = "comment"

====
